---- MODULE Spec2Model ----
(***************************************************************************)
(* miniover: the message-feed supervisor (src/messages.rs), the tray-event *)
(* consumer (src/tray.rs) and the config file they share (src/utils.rs),   *)
(* together with the push service they talk to.                            *)
(*                                                                         *)
(* The supervisor is one async task.  Its steps are cut at its await       *)
(* points (each REST call, connect, login send, next frame, channel send,  *)
(* sleep); the synchronous code between two await points is one step.      *)
(* The tray-event consumer is a second task; the push service receives new *)
(* messages at any moment.                                                 *)
(***************************************************************************)
EXTENDS Integers, Sequences, FiniteSets, TLC

\* ------------------------------------------------------------------ bounds
\* Messages the service receives during one run.
MaxMsgs == 2
\* Menu events the user raises during one run.
MaxClicks == 1
\* Frames that arrive on one connection.
MaxFrames == 3
\* Messages in a download answer whose ids may repeat.
MaxBatch == 2

\* ------------------------------------------------------------- Option<T>
None == <<>>
Some(x) == <<x>>
IsSome(o) == o # None
Unwrap(o) == o[1]

\* ------------------------------------------------------- message id text
\* id_str is the service's decimal rendering of the numeric id.
RECURSIVE Digits(_)
Digits(n) ==
    IF n < 10 THEN <<n>> ELSE Append(Digits(n \div 10), n % 10)

IdStr(n) == Digits(n)

RECURSIVE ParseDigits(_)
ParseDigits(s) ==
    IF Len(s) = 0 THEN 0
    ELSE 10 * ParseDigits(SubSeq(s, 1, Len(s) - 1)) + s[Len(s)]

\* The service reads the "message" form field of update_highest_message back
\* into a number.
ParseId(s) == ParseDigits(s)

\* Byte-wise (lexicographic) order of two id strings: what a comparison of
\* id_str instead of id would compute.
RECURSIVE LexLess(_, _)
LexLess(a, b) ==
    IF Len(b) = 0 THEN FALSE
    ELSE IF Len(a) = 0 THEN TRUE
    ELSE IF a[1] # b[1] THEN a[1] < b[1]
    ELSE LexLess(Tail(a), Tail(b))

\* ------------------------------------------------------------ types.rs
\* Event: the variants whose handling touches the state modelled here
\* (ShowAbout and ShowLogs only show a toast or open a folder).
Events == {"Quit", "ToggleStartOnBoot", "Logout"}

\* Config::default()
DefaultConfig ==
    [user_key |-> None, secret |-> None, device_id |-> None,
     start_on_boot |-> FALSE, last_message_id |-> None]

\* A config record after a completed login (init_config).
LoggedIn(sob, last) ==
    [user_key |-> Some("u"), secret |-> Some("s"), device_id |-> Some("d"),
     start_on_boot |-> sob, last_message_id |-> last]

\* Message: the fields the pipeline reads.
Kind(p, a, r) == [priority |-> p, acked |-> a, receipt |-> r]

\* The kinds of message the service sends in this model: an unacknowledged
\* emergency message with its receipt, and its neighbours that differ from it
\* in one field (lower priority, acknowledged, no receipt, empty receipt).
MsgKinds ==
    {Kind(2, 0, Some("r1")), Kind(1, 0, Some("r1")), Kind(2, 1, Some("r1")),
     Kind(2, 0, None), Kind(2, 0, Some(""))}

\* The kinds that arrive while the whole client runs: an emergency message
\* to acknowledge and a plain one.
FeedKinds == {Kind(2, 0, Some("r1")), Kind(1, 0, None)}

MkMessage(n, k) ==
    [id |-> n, id_str |-> IdStr(n), priority |-> k.priority,
     acked |-> k.acked, receipt |-> k.receipt]

VARIABLES
    pc,        \* the supervisor's position
    config,    \* the supervisor's in-memory Config
    disk,      \* the persisted record (config.json)
    appcfg,    \* AppState.config, the tray consumer's copy
    server,    \* messages the service holds for the device, oldest first
    nextId,    \* the id the service gives its next message
    batch,     \* process_messages: the downloaded messages
    idx,       \* process_messages: position of the for loop in batch
    caller,    \* who called process_messages: "startup" | "read" | "unit"
    pmRes,     \* result of the last finished pass: "none" | "ok" | "err"
    trace,     \* calls made by the current pass, in order
    failed,    \* the kinds of call that failed in the current pass
    chan,      \* the mpsc event channel
    clicks,    \* menu events raised so far
    trayPc,    \* tray consumer: "run" | "returned" | "exit"
    wsSent,    \* frames sent on the current connection
    connects,  \* whether connect_websocket was called before
    lastAct,   \* the supervisor's last step and its outcome
    inbox,     \* frames the current stream holds, not yet yielded by next()
    done       \* frames the read loop has taken from the current stream

vars == <<pc, config, disk, appcfg, server, nextId, batch, idx, caller,
          pmRes, trace, failed, chan, clicks, trayPc, wsSent, connects,
          lastAct, inbox, done>>

pmVars == <<batch, idx, caller, pmRes, trace, failed>>
trayVars == <<appcfg, chan, clicks, trayPc>>
srvVars == <<server, nextId>>
wsVars == <<inbox, done>>

Act(op, ok) == [op |-> op, ok |-> ok]

\* time::sleep(Duration::from_millis(ms))
Sleep(ms) == [op |-> "sleep", ok |-> TRUE, ms |-> ms]

\* The process is alive: std::process::exit has not been called.
Running == trayPc # "exit"


\* ------------------------------------------------------------ utils.rs
\* A save that never reaches the file (a variant the properties must tell
\* from save_config).
save_config_lost(c, d, ok) == d

\* save_config: the whole record replaces the file's content when the write
\* succeeds; a failed save leaves the file as it was.
save_config(c, d, ok) == IF ok THEN c ELSE d

\* load_config: the record the file holds.
load_config(d) == d

\* ---------------------------------------------------- REST (messages.rs)
\* What one HTTP exchange can produce: the request may not get through
\* (sent = FALSE), the HTTP status may be a failure, the body may not decode,
\* and the body's status field may differ from 1.  A request that got
\* through may have been carried out by the service (applied) whatever the
\* client makes of the answer; an answer of 2xx with status 1 is given only
\* to a request that was carried out.
Responses ==
    {r \in [sent : BOOLEAN, http : BOOLEAN, decodes : BOOLEAN, status : {0, 1},
            applied : BOOLEAN] :
        /\ (~r.sent => ~r.http /\ ~r.decodes /\ r.status = 0 /\ ~r.applied)
        /\ (~r.decodes => r.status = 0)
        /\ (r.http /\ r.decodes /\ r.status = 1 => r.applied)}

\* A download that trusts any 2xx answer that decodes (a variant the
\* properties must tell from download_ok).
download_ok_any_status(r) == r.sent /\ r.http /\ r.decodes

\* A download that does not look at the HTTP status (a variant the properties
\* must tell from download_ok).
download_ok_any_http(r) == r.sent /\ r.decodes /\ r.status = 1

download_ok(r) == r.sent /\ r.http /\ r.decodes /\ r.status = 1

delete_ok(r) == r.sent /\ r.http /\ r.decodes /\ r.status = 1

acknowledge_ok(r) == r.sent /\ r.http /\ r.decodes /\ r.status = 1

\* Whether the service carried the request out.
ServiceDid(r) == r.applied

\* Orders in which the service may list the messages it holds: oldest first
\* or newest first.
Orders == {"oldest_first", "newest_first"}

Listing(s, o) ==
    IF o = "oldest_first" THEN s
    ELSE [i \in 1..Len(s) |-> s[Len(s) + 1 - i]]

\* update_highest_message: every message up to and including the id goes.
ServiceDelete(s, arg) == SelectSeq(s, LAMBDA m : m.id > ParseId(arg))

\* acknowledge: the receipt's messages are marked acknowledged.
ServiceAck(s, rc) ==
    [i \in 1..Len(s) |->
        IF s[i].receipt = Some(rc) THEN [s[i] EXCEPT !.acked = 1] ELSE s[i]]

\* -------------------------------------------- process_messages (helpers)
\* A guard that fails only when both are absent (a variant the properties
\* must tell from MissingCreds).
MissingBoth(c) == c.secret = None /\ c.device_id = None

\* The guard of process_messages: secret.is_none() || device_id.is_none().
MissingCreds(c) == c.secret = None \/ c.device_id = None

\* A maximum taken over the id_str texts instead of the numeric ids (a variant
\* the properties must tell from Highest).
HighestByStr(b) ==
    CHOOSE i \in 1..Len(b) :
        /\ \A j \in 1..Len(b) : ~LexLess(b[i].id_str, b[j].id_str)
        /\ \A j \in (i + 1)..Len(b) : LexLess(b[j].id_str, b[i].id_str)

\* The first message of the answer taken for the highest (a variant the
\* properties must tell from Highest).
HighestFirstListed(b) == 1

\* messages.iter().max_by_key(|m| m.id): the position of the maximum numeric
\* id; of several equal maxima Iterator::max_by_key returns the last.
Highest(b) ==
    CHOOSE i \in 1..Len(b) :
        /\ \A j \in 1..Len(b) : b[j].id <= b[i].id
        /\ \A j \in (i + 1)..Len(b) : b[j].id < b[i].id

\* The argument of delete_messages: &highest_message.id_str.
DeleteArg(b) == b[Highest(b)].id_str

\* The test without its acked part (a variant the properties must tell from
\* NeedsAck).
NeedsAckNoAcked(m) == m.priority >= 2 /\ IsSome(m.receipt)

\* The test before acknowledge_emergency.
NeedsAck(m) == m.priority >= 2 /\ m.acked = 0 /\ IsSome(m.receipt)

\* A loop that stops one message early (a variant the properties must tell
\* from LoopDone).
LoopDoneEarly(i, b) == i >= Len(b)

\* for message in &messages: the loop is over once i has passed the last one.
LoopDone(i, b) == i > Len(b)

\* A call the pass makes: its kind, the batch position it is made for, its
\* argument.
Call(op, i, arg) == [op |-> op, i |-> i, arg |-> arg]

Failed(op, ok) == IF ok THEN failed ELSE failed \cup {op}

\* A startup pass whose failure ends the supervisor, as a `?` on the call
\* would (a variant the properties must tell from ReturnPc).
ReturnPcFatal ==
    CASE caller = "startup" /\ pmRes = "err" -> "returned_err"
      [] caller = "startup" -> "loop_top"
      [] caller = "read" -> "reading"
      [] OTHER -> "unit_done"

\* A supervisor that starts its loop whatever it loaded (a variant the
\* properties must tell from NotLoggedIn).
NotLoggedInIgnored(c) == FALSE

\* The logged-in check of consume_message_feed.
NotLoggedIn(c) == c.secret = None \/ c.device_id = None

\* A pass after '!' whose failure breaks the read loop (a variant the
\* properties must tell from ReturnPc).
ReturnPcBreakOnErr ==
    CASE caller = "startup" -> "loop_top"
      [] caller = "read" /\ pmRes = "err" -> "reconnect_delay"
      [] caller = "read" -> "reading"
      [] OTHER -> "unit_done"

\* Where a finished pass returns to.
ReturnPc ==
    CASE caller = "startup" -> "loop_top"
      [] caller = "read" -> "reading"
      [] OTHER -> "unit_done"

\* A return statement of process_messages: the pass is over with result res.
PmReturn(res) ==
    /\ pc' = "pm_done"
    /\ pmRes' = res

\* A for loop that a failed acknowledge call ends, as a `?` on the call
\* would (a variant the properties must tell from PmAdvance).
PmAdvanceStopOnAckErr ==
    /\ idx' = idx + 1
    /\ pc' = IF "ack" \in failed' THEN "pm_done"
            ELSE IF LoopDone(idx + 1, batch) THEN "pm_delete" ELSE "pm_loop"

\* A for loop that a failed notification ends, as a `?` on
\* show_notification would (a variant the properties must tell from
\* PmAdvance).
PmAdvanceStopOnNotifyErr ==
    /\ idx' = idx + 1
    /\ pc' = IF lastAct' = Act("notify", FALSE) THEN "pm_done"
            ELSE IF LoopDone(idx + 1, batch) THEN "pm_delete" ELSE "pm_loop"

\* The end of one turn of the for loop: the next message, or the delete
\* call after the last one.
PmAdvance ==
    /\ idx' = idx + 1
    /\ pc' = IF LoopDone(idx + 1, batch) THEN "pm_delete" ELSE "pm_loop"

\* ----------------------------------------------- process_messages (steps)
\* A download that is tried again at once when it fails (a variant the
\* properties must tell from Download).
DownloadRetried(r, o) ==
    /\ trace' = Append(trace, Call("download", 0, None))
    /\ failed' = IF download_ok(r) THEN {} ELSE {"download"}
    /\ lastAct' = Act("download", download_ok(r))
    /\ IF ~download_ok(r)
       THEN pc' = "pm_entry" /\ pmRes' = "none" /\ batch' = <<>> /\ idx' = 0
       ELSE IF server = <<>>
       THEN PmReturn("ok") /\ batch' = <<>> /\ idx' = 0
       ELSE /\ batch' = Listing(server, o)
            /\ idx' = 1
            /\ pc' = "pm_loop"
            /\ pmRes' = "none"

\* A download whose empty answer is an error of the pass (a variant the
\* properties must tell from Download).
DownloadEmptyIsErr(r, o) ==
    /\ trace' = <<Call("download", 0, None)>>
    /\ failed' = IF download_ok(r) THEN {} ELSE {"download"}
    /\ lastAct' = Act("download", download_ok(r))
    /\ IF ~download_ok(r) \/ server = <<>>
       THEN PmReturn("err") /\ batch' = <<>> /\ idx' = 0
       ELSE /\ batch' = Listing(server, o)
            /\ idx' = 1
            /\ pc' = "pm_loop"
            /\ pmRes' = "none"

\* download_messages(..).await? answered by r, the service listing in order
\* o, and the empty-batch return.
Download(r, o) ==
    /\ trace' = <<Call("download", 0, None)>>
    /\ failed' = IF download_ok(r) THEN {} ELSE {"download"}
    /\ lastAct' = Act("download", download_ok(r))
    /\ IF ~download_ok(r)
       THEN PmReturn("err") /\ batch' = <<>> /\ idx' = 0
       ELSE IF server = <<>>
       THEN PmReturn("ok") /\ batch' = <<>> /\ idx' = 0
       ELSE /\ batch' = Listing(server, o)
            /\ idx' = 1
            /\ pc' = "pm_loop"
            /\ pmRes' = "none"

\* Entry: the credentials guard, the download, the empty-batch return.
PM_Entry ==
    /\ Running /\ pc = "pm_entry"
    /\ IF MissingCreds(config)
       THEN /\ trace' = <<>>
            /\ failed' = {}
            /\ PmReturn("err")
            /\ lastAct' = Act("pm_guard", FALSE)
            /\ batch' = <<>> /\ idx' = 0
       ELSE \E r \in Responses, o \in Orders : Download(r, o)
    /\ UNCHANGED <<config, disk, caller, wsSent, connects>>
    /\ UNCHANGED trayVars /\ UNCHANGED srvVars
    /\ UNCHANGED wsVars

\* One turn of the for loop up to its await: show_notification, then the
\* emergency test.
PM_Notify ==
    /\ Running /\ pc = "pm_loop"
    /\ \E ok \in BOOLEAN :
        /\ trace' = Append(trace, Call("notify", idx, None))
        /\ failed' = Failed("notify", ok)
        /\ lastAct' = Act("notify", ok)
    /\ IF NeedsAck(batch[idx])
       THEN pc' = "pm_ack" /\ UNCHANGED idx
       ELSE PmAdvance
    /\ UNCHANGED <<config, disk, batch, caller, pmRes, wsSent, connects>>
    /\ UNCHANGED trayVars /\ UNCHANGED srvVars
    /\ UNCHANGED wsVars

\* acknowledge_emergency(secret, receipt) answered by r.
Acknowledge(r) ==
    /\ trace' = Append(trace, Call("ack", idx, batch[idx].receipt))
    /\ failed' = Failed("ack", acknowledge_ok(r))
    /\ lastAct' = Act("ack", acknowledge_ok(r))
    /\ server' = IF ServiceDid(r)
                 THEN ServiceAck(server, Unwrap(batch[idx].receipt))
                 ELSE server

\* acknowledge_emergency(secret, receipt) for the current message.
PM_Ack ==
    /\ Running /\ pc = "pm_ack"
    /\ \E r \in Responses : Acknowledge(r)
    /\ PmAdvance
    /\ UNCHANGED <<config, disk, batch, caller, pmRes, wsSent, connects, nextId>>
    /\ UNCHANGED trayVars
    /\ UNCHANGED wsVars

\* A delete whose failure stores and saves the new last_message_id all the
\* same (a variant the properties must tell from Delete).
DeleteStoresOnFailure(r, saveOk) ==
    LET arg == DeleteArg(batch)
        del == Call("delete", Highest(batch), Some(arg))
    IN  /\ lastAct' = Act("delete", delete_ok(r))
        /\ server' = IF ServiceDid(r) THEN ServiceDelete(server, arg)
                     ELSE server
        /\ config' = [config EXCEPT !.last_message_id = Some(arg)]
        /\ disk' = save_config(config', disk, saveOk)
        /\ trace' = trace \o <<del, Call("save", 0, None)>>
        /\ failed' = IF delete_ok(r) THEN Failed("save", saveOk)
                     ELSE Failed("save", saveOk) \cup {"delete"}
        /\ PmReturn(IF saveOk THEN "ok" ELSE "err")

\* delete_messages with the highest id; on success the new last_message_id
\* is stored and saved.
Delete(r, saveOk) ==
    LET arg == DeleteArg(batch)
        del == Call("delete", Highest(batch), Some(arg))
    IN  /\ lastAct' = Act("delete", delete_ok(r))
        /\ server' = IF ServiceDid(r) THEN ServiceDelete(server, arg)
                     ELSE server
        /\ IF delete_ok(r)
           THEN /\ config' = [config EXCEPT !.last_message_id = Some(arg)]
                /\ disk' = save_config(config', disk, saveOk)
                /\ trace' = trace \o <<del, Call("save", 0, None)>>
                /\ failed' = Failed("save", saveOk)
                /\ PmReturn(IF saveOk THEN "ok" ELSE "err")
           ELSE /\ trace' = Append(trace, del)
                /\ failed' = failed \cup {"delete"}
                /\ PmReturn("ok")
                /\ UNCHANGED <<config, disk>>

PM_Delete ==
    /\ Running /\ pc = "pm_delete"
    /\ \E r \in Responses, saveOk \in BOOLEAN : Delete(r, saveOk)
    /\ UNCHANGED <<batch, idx, caller, wsSent, connects, nextId>>
    /\ UNCHANGED trayVars
    /\ UNCHANGED wsVars

\* The return to the caller, which logs an error result; the pass's locals
\* are dropped.
PM_Return ==
    /\ Running /\ pc = "pm_done"
    /\ pc' = ReturnPc
    /\ batch' = <<>> /\ idx' = 0 /\ trace' = <<>> /\ failed' = {}
    /\ caller' = "none" /\ pmRes' = "none"
    /\ lastAct' = Act("pm_return", pmRes = "ok")
    /\ UNCHANGED <<config, disk, wsSent, connects>>
    /\ UNCHANGED trayVars /\ UNCHANGED srvVars
    /\ UNCHANGED wsVars

\* ------------------------------------------------------- the push service
\* A new message for the device arrives at the service; ids grow.
Arrive(kinds) ==
    /\ Running
    /\ nextId < 9 + MaxMsgs
    /\ \E k \in kinds : server' = Append(server, MkMessage(nextId, k))
    /\ nextId' = nextId + 1
    /\ UNCHANGED <<pc, config, disk, wsSent, connects, lastAct>>
    /\ UNCHANGED pmVars /\ UNCHANGED trayVars
    /\ UNCHANGED wsVars

ServerArrive == Arrive(FeedKinds)

\* ------------------------------------------------- consume_message_feed
\* mpsc::channel(100): the capacity of the event channel.
CHANNEL_CAPACITY == 100

\* const RECONNECT_DELAY_MS
RECONNECT_DELAY_MS == 5000

\* A dispatch that takes the lower-case letters too (a variant the properties
\* must tell from Decode).
DecodeAnyCase(b) ==
    CASE b = 35 -> "KeepAlive"
      [] b = 33 -> "NewData"
      [] b \in {82, 114} -> "ReloadRequested"
      [] b \in {69, 101} -> "PermanentError"
      [] b \in {65, 97} -> "SessionSupersededElsewhere"
      [] OTHER -> "Unknown"

\* A dispatch that also polls on a keep-alive (a variant the properties must
\* tell from Decode).
DecodePollOnKeepAlive(b) ==
    CASE b \in {35, 33} -> "NewData"
      [] b = 82 -> "ReloadRequested"
      [] b = 69 -> "PermanentError"
      [] b = 65 -> "SessionSupersededElsewhere"
      [] OTHER -> "Unknown"

\* A dispatch that takes 'R' for a permanent error (a variant the properties
\* must tell from Decode).
DecodeReloadAsError(b) ==
    CASE b = 35 -> "KeepAlive"
      [] b = 33 -> "NewData"
      [] b \in {82, 69} -> "PermanentError"
      [] b = 65 -> "SessionSupersededElsewhere"
      [] OTHER -> "Unknown"

\* A dispatch that takes every unknown byte for a permanent error (a variant
\* the properties must tell from Decode).
DecodeUnknownAsError(b) ==
    CASE b = 35 -> "KeepAlive"
      [] b = 33 -> "NewData"
      [] b = 82 -> "ReloadRequested"
      [] b = 65 -> "SessionSupersededElsewhere"
      [] OTHER -> "PermanentError"

\* A dispatch that breaks the read loop on a keep-alive (a variant the
\* properties must tell from Decode).
DecodeKeepAliveAsReload(b) ==
    CASE b \in {35, 82} -> "ReloadRequested"
      [] b = 33 -> "NewData"
      [] b = 69 -> "PermanentError"
      [] b = 65 -> "SessionSupersededElsewhere"
      [] OTHER -> "Unknown"

\* The one-byte commands: match binary[0] as char.
Decode(b) ==
    CASE b = 35 -> "KeepAlive"
      [] b = 33 -> "NewData"
      [] b = 82 -> "ReloadRequested"
      [] b = 69 -> "PermanentError"
      [] b = 65 -> "SessionSupersededElsewhere"
      [] OTHER -> "Unknown"

\* Inbound frames: what ws_stream.next() can yield.  "End" is the end of the
\* stream (None), "Err" a transport error.
CmdBytes == {35, 33, 82, 69, 65, 0, 66}

Frames ==
    {[kind |-> "Binary", data |-> <<b>>] : b \in CmdBytes}
    \cup {[kind |-> "Binary", data |-> d] : d \in {<<>>, <<33, 69>>}}
    \cup {[kind |-> "Text", data |-> d] : d \in {<<33>>, <<69>>, <<104, 105>>}}
    \cup {[kind |-> k, data |-> <<>>] :
             k \in {"Ping", "Pong", "Close", "Frame", "Err", "End"}}

\* Clearing the secret alone (a variant the properties must tell from
\* Invalidate).
InvalidateSecretOnly(c) == [c EXCEPT !.secret = None]

\* The two `config.x = None` assignments of the 'E' and 'A' arms.
Invalidate(c) == [c EXCEPT !.secret = None, !.device_id = None]

\* A guard that looks at the persisted record instead of the one in memory
\* (a variant the properties must tell from LoopGuardFails).
LoopGuardReadsDisk(c) == disk.secret = None \/ disk.device_id = None

\* No guard at all (a variant the properties must tell from LoopGuardFails).
LoopGuardOff(c) == FALSE

\* The guard at the top of the main loop.
LoopGuardFails(c) == MissingCreds(c)

\* A supervisor that gives up at a break (a variant the properties must tell
\* from AfterBreak).
AfterBreakGiveUp == "gave_up"

\* A break that skips the sleep (a variant the properties must tell from
\* AfterBreak).
AfterBreakNoDelay == "loop_top"

\* Every `break` of the read loop and every failed connect falls through to
\* the sleep at the bottom of the main loop.
AfterBreak == "reconnect_delay"

\* What a failed tx.send(Event::Logout).await? leads to: the `?` returns the
\* error from consume_message_feed.
AfterSendErr == "returned_err"

\* A login line with the two fields exchanged (a variant the properties must
\* tell from LoginMsg).
LoginMsgSecretFirst(c) ==
    <<"login:", Unwrap(c.secret), ":", Unwrap(c.device_id), "\n">>

\* login:<device_id>:<secret>\n
LoginMsg(c) == <<"login:", Unwrap(c.device_id), ":", Unwrap(c.secret), "\n">>

\* load_config, the logged-in check, and the call of the startup pass.
Startup ==
    /\ Running /\ pc = "start"
    /\ \E loadOk \in BOOLEAN :
        IF ~loadOk
        THEN /\ pc' = "load_err"
             /\ lastAct' = Act("load", FALSE)
             /\ UNCHANGED <<config, caller>>
        ELSE /\ config' = load_config(disk)
             /\ lastAct' = Act("load", TRUE)
             /\ IF NotLoggedIn(config')
                THEN pc' = "panicked" /\ UNCHANGED caller
                ELSE pc' = "pm_entry" /\ caller' = "startup"
    /\ UNCHANGED <<disk, batch, idx, pmRes, trace, failed, wsSent, connects>>
    /\ UNCHANGED trayVars /\ UNCHANGED srvVars
    /\ UNCHANGED wsVars

\* Top of the main loop: the credentials guard.
LoopTop ==
    /\ Running /\ pc = "loop_top"
    /\ pc' = IF LoopGuardFails(config) THEN "nocreds_sleep" ELSE "connect"
    /\ lastAct' = Act("loop_top", ~LoopGuardFails(config))
    /\ UNCHANGED <<config, disk, wsSent, connects>>
    /\ UNCHANGED pmVars /\ UNCHANGED trayVars /\ UNCHANGED srvVars
    /\ UNCHANGED wsVars

\* The sleep of the guard's branch, then `continue`.
NoCredsSleep ==
    /\ Running /\ pc = "nocreds_sleep"
    /\ pc' = "loop_top"
    /\ lastAct' = Sleep(RECONNECT_DELAY_MS)
    /\ UNCHANGED <<config, disk, wsSent, connects>>
    /\ UNCHANGED pmVars /\ UNCHANGED trayVars /\ UNCHANGED srvVars
    /\ UNCHANGED wsVars

\* connect_websocket up to the established connection.
Connect ==
    /\ Running /\ pc = "connect"
    /\ \E ok \in BOOLEAN :
        /\ pc' = IF ok THEN "login" ELSE AfterBreak
        /\ lastAct' = Act("connect", ok)
    /\ connects' = TRUE
    /\ wsSent' = <<>>
    /\ inbox' = <<>> /\ done' = <<>>
    /\ UNCHANGED <<config, disk>>
    /\ UNCHANGED pmVars /\ UNCHANGED trayVars /\ UNCHANGED srvVars

\* connect_websocket: the login frame (the unwraps panic without credentials).
SendLogin ==
    /\ Running /\ pc = "login"
    /\ IF MissingCreds(config)
       THEN /\ pc' = "panicked"
            /\ lastAct' = Act("login", FALSE)
            /\ UNCHANGED wsSent
       ELSE \E ok \in BOOLEAN :
            /\ lastAct' = Act("login", ok)
            /\ IF ok
               THEN pc' = "reading" /\ wsSent' = Append(wsSent, LoginMsg(config))
               ELSE pc' = AfterBreak /\ UNCHANGED wsSent
    /\ UNCHANGED <<config, disk, connects>>
    /\ UNCHANGED pmVars /\ UNCHANGED trayVars /\ UNCHANGED srvVars
    /\ UNCHANGED wsVars

\* The command a frame carries: a binary frame of exactly one byte is
\* decoded, every other frame carries none.
Command(f) ==
    IF f.kind = "Binary" /\ Len(f.data) = 1 THEN Decode(f.data[1]) ELSE "none"

\* A read loop that polls the stream while a pass is in flight (a variant the
\* properties must tell from ReadReady).
ReadReadyInPass == pc \in {"reading", "pm_loop", "pm_ack", "pm_delete"}

\* The supervisor is at ws_stream.next().await: every arm of the match,
\* process_messages(..).await included, has come back to the top of the loop.
ReadReady == pc = "reading"

\* What the read loop got: a frame (ok) or a transport error, and the command
\* it carried.
Got(f) == [op |-> "read", ok |-> f.kind # "Err", cmd |-> Command(f)]

\* One turn of the read loop on frame f: its dispatch, up to the first await
\* of the arm taken.
Read(f) ==
    /\ Running /\ ReadReady
    /\ lastAct' = Got(f)
    /\ CASE f.kind \in {"Close", "Err", "End"} ->
              pc' = AfterBreak /\ UNCHANGED <<config, caller>>
         [] Command(f) = "NewData" ->
              pc' = "pm_entry" /\ caller' = "read" /\ UNCHANGED config
         [] Command(f) = "ReloadRequested" ->
              pc' = AfterBreak /\ UNCHANGED <<config, caller>>
         [] Command(f) \in {"PermanentError", "SessionSupersededElsewhere"} ->
              /\ config' = Invalidate(config)
              /\ pc' = "inv_save"
              /\ UNCHANGED caller
         [] OTHER ->
              pc' = "reading" /\ UNCHANGED <<config, caller>>
    /\ UNCHANGED <<disk, batch, idx, pmRes, trace, failed, wsSent, connects>>
    /\ UNCHANGED trayVars /\ UNCHANGED srvVars

\* The frame arrives and is taken in one step.
ReadFrame == \E f \in Frames : Read(f) /\ UNCHANGED wsVars

\* 'E' / 'A': save_config of the cleared record; a failure is logged.
SaveCleared ==
    /\ Running /\ pc = "inv_save"
    /\ \E ok \in BOOLEAN :
        /\ disk' = save_config(config, disk, ok)
        /\ lastAct' = Act("save_cleared", ok)
    /\ pc' = "inv_send"
    /\ UNCHANGED <<config, wsSent, connects>>
    /\ UNCHANGED pmVars /\ UNCHANGED trayVars /\ UNCHANGED srvVars
    /\ UNCHANGED wsVars

\* 'E' / 'A': tx.send(Event::Logout).await?, then break.  The send waits
\* while the channel is full and fails once the receiver is gone.
SendLogout ==
    /\ Running /\ pc = "inv_send"
    /\ IF trayPc = "run"
       THEN /\ Len(chan) < CHANNEL_CAPACITY
            /\ chan' = Append(chan, "Logout")
            /\ pc' = AfterBreak
            /\ lastAct' = Act("send_logout", TRUE)
       ELSE /\ pc' = AfterSendErr
            /\ lastAct' = Act("send_logout", FALSE)
            /\ UNCHANGED chan
    /\ UNCHANGED <<config, disk, appcfg, clicks, trayPc, wsSent, connects>>
    /\ UNCHANGED pmVars /\ UNCHANGED srvVars
    /\ UNCHANGED wsVars

\* The sleep at the bottom of the main loop.
ReconnectDelay ==
    /\ Running /\ pc = "reconnect_delay"
    /\ pc' = "loop_top"
    /\ lastAct' = Sleep(RECONNECT_DELAY_MS)
    /\ UNCHANGED <<config, disk, wsSent, connects>>
    /\ UNCHANGED pmVars /\ UNCHANGED trayVars /\ UNCHANGED srvVars
    /\ UNCHANGED wsVars

\* ------------------------------------------------- consume_tray_events
supVars == <<pc, config, wsSent, connects, lastAct>>

\* The menu thread queues an event.
MenuEvents == {"Quit", "ToggleStartOnBoot"}

MenuClick ==
    /\ trayPc = "run"
    /\ clicks < MaxClicks
    /\ Len(chan) < CHANNEL_CAPACITY
    /\ \E e \in MenuEvents : chan' = Append(chan, e)
    /\ clicks' = clicks + 1
    /\ UNCHANGED <<appcfg, trayPc, disk>>
    /\ UNCHANGED supVars /\ UNCHANGED pmVars /\ UNCHANGED srvVars
    /\ UNCHANGED wsVars

\* Event::Quit: the process exits, unless the toast fails and `?` returns
\* from the consumer, dropping the receiver.
TrayQuit ==
    /\ trayPc = "run" /\ chan # <<>> /\ Head(chan) = "Quit"
    /\ \E toastOk \in BOOLEAN :
        trayPc' = IF toastOk THEN "exit" ELSE "returned"
    /\ chan' = <<>>
    /\ UNCHANGED <<appcfg, clicks, disk>>
    /\ UNCHANGED supVars /\ UNCHANGED pmVars /\ UNCHANGED srvVars
    /\ UNCHANGED wsVars

\* Event::ToggleStartOnBoot: flip the flag in AppState and save AppState's
\* record; set_menu_item_label(..).unwrap() may panic the consumer.
TrayToggle ==
    /\ trayPc = "run" /\ chan # <<>> /\ Head(chan) = "ToggleStartOnBoot"
    /\ appcfg' = [appcfg EXCEPT !.start_on_boot = ~appcfg.start_on_boot]
    /\ \E saveOk \in BOOLEAN : disk' = save_config(appcfg', disk, saveOk)
    /\ \E labelOk \in BOOLEAN :
        IF labelOk
        THEN chan' = Tail(chan) /\ UNCHANGED trayPc
        ELSE chan' = <<>> /\ trayPc' = "returned"
    /\ UNCHANGED clicks
    /\ UNCHANGED supVars /\ UNCHANGED pmVars /\ UNCHANGED srvVars
    /\ UNCHANGED wsVars

\* Event::Logout: clear AppState's credentials, save, exit.
TrayLogout ==
    /\ trayPc = "run" /\ chan # <<>> /\ Head(chan) = "Logout"
    /\ appcfg' = [appcfg EXCEPT !.user_key = None, !.secret = None,
                                !.device_id = None]
    /\ \E saveOk \in BOOLEAN : disk' = save_config(appcfg', disk, saveOk)
    /\ chan' = Tail(chan)
    /\ trayPc' = "exit"
    /\ UNCHANGED clicks
    /\ UNCHANGED supVars /\ UNCHANGED pmVars /\ UNCHANGED srvVars
    /\ UNCHANGED wsVars

\* ------------------------------------------------------- specification
\* last_message_id values a config file may hold before the run.
OldLast == {Some(IdStr(8))}

\* init_config has returned a logged-in record to AppState.  The file holds
\* the same record, or, when init_config's save failed, the record that made
\* the login necessary: one that lacks the secret, the device id or both.
InitFiles ==
    /\ \E last \in OldLast : appcfg = LoggedIn(FALSE, last)
    /\ \/ disk = appcfg
       \/ \E s \in {None, appcfg.secret}, d \in {None, appcfg.device_id} :
            /\ s = None \/ d = None
            /\ disk = [DefaultConfig EXCEPT
                          !.last_message_id = appcfg.last_message_id,
                          !.secret = s, !.device_id = d]

InitRest ==
    /\ server = <<>> /\ nextId = 9
    /\ batch = <<>> /\ idx = 0 /\ pmRes = "none" /\ trace = <<>>
    /\ failed = {}
    /\ chan = <<>> /\ clicks = 0 /\ trayPc = "run"
    /\ wsSent = <<>> /\ connects = FALSE
    /\ lastAct = Act("init", TRUE)
    /\ inbox = <<>> /\ done = <<>>

Init ==
    /\ InitFiles /\ InitRest
    /\ pc = "start" /\ caller = "none" /\ config = DefaultConfig

Pipeline == PM_Entry \/ PM_Notify \/ PM_Ack \/ PM_Delete \/ PM_Return

Supervisor ==
    \/ Startup \/ LoopTop \/ NoCredsSleep \/ Connect \/ SendLogin
    \/ ReadFrame \/ SaveCleared \/ SendLogout \/ ReconnectDelay

Tray == MenuClick \/ TrayQuit \/ TrayToggle \/ TrayLogout

Next == Supervisor \/ Pipeline \/ Tray \/ ServerArrive

Spec == Init /\ [][Next]_vars

\* The supervisor task is scheduled again when its sleep is over: the sleep at
\* the bottom of the main loop ends and the loop goes round.
FairSpec == Spec /\ WF_vars(ReconnectDelay) /\ WF_vars(LoopTop)

\* --------------------------------------- the read loop on every byte value
\* binary[0] is a u8.
Bytes == 0..255

ByteFrames == {[kind |-> "Binary", data |-> <<b>>] : b \in Bytes}

ReadByte == \E f \in ByteFrames : Read(f) /\ UNCHANGED wsVars

\* The supervisor from its first connect on, fed one-byte binary frames of
\* every value, with no tray activity.
DispatchInit ==
    /\ InitRest
    /\ pc = "connect" /\ caller = "none"
    /\ \E last \in OldLast : config = LoggedIn(FALSE, last)
    /\ disk = config /\ appcfg = config

DispatchNext ==
    \/ Connect \/ SendLogin \/ ReadByte \/ Pipeline \/ SaveCleared
    \/ SendLogout \/ ReconnectDelay \/ LoopTop \/ NoCredsSleep \/ ServerArrive

DispatchSpec == DispatchInit /\ [][DispatchNext]_vars

\* ------------------------------------------ the read loop on a buffered stream
\* The connection is open: between the login and the end of the read loop.
Connected ==
    /\ pc \in {"reading", "pm_entry", "pm_loop", "pm_ack", "pm_delete",
               "pm_done", "inv_save", "inv_send"}
    /\ caller # "startup"

\* The frames of the buffered stream: '!', '#' and 'E'.
QueuedFrames == {[kind |-> "Binary", data |-> <<b>>] : b \in {33, 35, 69}}

\* A frame arrives on the open connection while the supervisor is anywhere in
\* its handling of earlier ones.
FrameArrive ==
    /\ Connected
    /\ Len(done) + Len(inbox) < MaxFrames
    /\ \E f \in QueuedFrames : inbox' = Append(inbox, f)
    /\ UNCHANGED <<pc, config, disk, wsSent, connects, lastAct, done>>
    /\ UNCHANGED pmVars /\ UNCHANGED trayVars /\ UNCHANGED srvVars

\* A stream whose next() drops a frame (a variant the properties must tell
\* from Rest).
RestSkipping(q) == IF Len(q) > 1 THEN Tail(Tail(q)) ELSE <<>>

\* ws_stream.next() takes the oldest frame off the stream.
Rest(q) == Tail(q)

\* while let Some(msg) = ws_stream.next().await, on the buffered stream.
ReadQueued ==
    /\ inbox # <<>>
    /\ Read(Head(inbox))
    /\ done' = Append(done, Head(inbox))
    /\ inbox' = Rest(inbox)

\* The supervisor from its first connect on, with frames arriving at any
\* moment of an open connection, and no tray activity.
OrderNext ==
    \/ Connect \/ SendLogin \/ FrameArrive \/ ReadQueued \/ Pipeline
    \/ SaveCleared \/ SendLogout \/ ReconnectDelay \/ LoopTop \/ NoCredsSleep
    \/ ServerArrive

OrderSpec == DispatchInit /\ [][OrderNext]_vars

\* ------------------------------------- process_messages taken on its own
\* process_messages called with any credentials, again and again, against a
\* service that receives messages of every kind at any moment.
UnitArrive == Arrive(MsgKinds)

UnitCall ==
    /\ pc = "unit_done"
    /\ pc' = "pm_entry"
    /\ caller' = "unit"
    /\ lastAct' = Act("call", TRUE)
    /\ UNCHANGED <<config, disk, batch, idx, pmRes, trace, failed, wsSent,
                   connects>>
    /\ UNCHANGED trayVars /\ UNCHANGED srvVars
    /\ UNCHANGED wsVars

PipelineInit ==
    /\ InitRest
    /\ pc = "pm_entry" /\ caller = "unit"
    /\ \E s \in {None, Some("s")}, d \in {None, Some("d")}, last \in OldLast :
        config = [LoggedIn(FALSE, last) EXCEPT !.secret = s, !.device_id = d]
    /\ disk = config /\ appcfg = config

PipelineNext == Pipeline \/ UnitArrive \/ UnitCall

PipelineSpec == PipelineInit /\ [][PipelineNext]_vars

\* ------------------------- process_messages on answers with repeated ids
\* Messages as a download answer may hold them when the service does not keep
\* its ids apart: the id and the id_str are separate fields of the JSON, so
\* two messages of one id may carry different texts ("10" and "010").
TieMessages ==
    {[id |-> n, id_str |-> t, priority |-> k.priority, acked |-> k.acked,
      receipt |-> k.receipt] :
        n \in {9, 10}, t \in {<<1, 0>>, <<0, 1, 0>>, <<9>>}, k \in FeedKinds}

TieLists ==
    UNION {[1..n -> {m \in TieMessages : ParseId(m.id_str) = m.id}] :
             n \in 1..MaxBatch}

\* process_messages called, with the credentials present, against a service
\* that holds one of these lists.
TieInit ==
    /\ server \in TieLists /\ nextId = 9
    /\ batch = <<>> /\ idx = 0 /\ pmRes = "none" /\ trace = <<>>
    /\ failed = {}
    /\ chan = <<>> /\ clicks = 0 /\ trayPc = "run"
    /\ wsSent = <<>> /\ connects = FALSE
    /\ lastAct = Act("init", TRUE)
    /\ inbox = <<>> /\ done = <<>>
    /\ pc = "pm_entry" /\ caller = "unit"
    /\ \E last \in OldLast : config = LoggedIn(FALSE, last)
    /\ disk = config /\ appcfg = config

TieNext == Pipeline \/ UnitCall

TieSpec == TieInit /\ [][TieNext]_vars

\* =================================================================
\* Properties
\* =================================================================
Ids(ms) == {ms[i].id : i \in DOMAIN ms}

IsMaxOf(i, b) == \A j \in DOMAIN b : b[j].id <= b[i].id

\* The trace positions of the calls of one kind.
CallsOf(op) == {k \in DOMAIN trace : trace[k].op = op}

\* The id_str of the batch message with the greatest numeric id.
MaxIdStr(b) == (CHOOSE m \in {b[i] : i \in DOMAIN b} :
                   \A j \in DOMAIN b : b[j].id <= m.id).id_str

\* C1: in a pass with a non-empty batch, delete_messages is called, and only
\* ever with the id_str of a batch message whose numeric id is the greatest
\* of the batch; never with the id_str of a message of smaller id.
C1_DeleteHighest ==
    /\ \A k \in CallsOf("delete") :
          /\ \E i \in DOMAIN batch :
                trace[k].arg = Some(batch[i].id_str) /\ IsMaxOf(i, batch)
          /\ \A j \in DOMAIN batch :
                ~IsMaxOf(j, batch) => trace[k].arg # Some(batch[j].id_str)
    /\ (pc = "pm_done" /\ batch # <<>> => CallsOf("delete") # {})

\* A pass over the batch <<10, 9>> (the greatest id first, and "10" before
\* "9" as text) has called delete with "10".
C1_Witness ==
    /\ pc = "pm_done" /\ Len(batch) = 2
    /\ batch[1].id = 10 /\ batch[2].id = 9
    /\ \E k \in CallsOf("delete") : trace[k].arg = Some(<<1, 0>>)

\* C2: last_message_id, in memory and in the persisted record, changes only
\* in the step of a pass whose delete call succeeded, and then to the id_str
\* of that batch's greatest id.  (The load at startup, which first fills the
\* in-memory record, is no change.)
C2_LastIdOnlyAfterDelete ==
    [][pc # "start" =>
         /\ (config'.last_message_id # config.last_message_id =>
               /\ pc = "pm_delete" /\ pc' = "pm_done" /\ "delete" \notin failed'
               /\ config'.last_message_id = Some(MaxIdStr(batch)))
         /\ (disk'.last_message_id # disk.last_message_id =>
               /\ pc = "pm_delete" /\ pc' = "pm_done" /\ "delete" \notin failed'
               /\ disk'.last_message_id = Some(MaxIdStr(batch)))]_vars

\* C3: whatever arrives at the service and whenever, every message a step
\* removes from the service is a message of the batch the running pass
\* downloaded, and show_notification was called for it before that step.
C3_DeletedWereNotified ==
    [][\A id \in Ids(server) \ Ids(server') :
          \E i \in DOMAIN batch :
             /\ batch[i].id = id
             /\ \E k \in CallsOf("notify") : trace[k].i = i]_vars

\* A successful delete has left on the service a message that arrived after
\* the download.
C3_Witness ==
    /\ pc = "pm_done" /\ batch # <<>>
    /\ CallsOf("delete") # {} /\ "delete" \notin failed
    /\ server # <<>>
    /\ \A i \in DOMAIN server : \A j \in DOMAIN batch : server[i].id > batch[j].id

\* The messages acknowledge_emergency is due for.
Qualifies(m) == m.priority >= 2 /\ m.acked = 0 /\ m.receipt # None

AcksFor(i) == {k \in CallsOf("ack") : trace[k].i = i}

\* C4: within a pass acknowledge_emergency is called at most once per batch
\* message, only for a message with priority >= 2, acked = 0 and a receipt,
\* with that receipt, and by the end of the pass once for each such message.
C4_AckExactlyOnce ==
    /\ \A k \in CallsOf("ack") : trace[k].i \in DOMAIN batch
    /\ \A i \in DOMAIN batch :
          /\ Cardinality(AcksFor(i)) <= 1
          /\ \A k \in AcksFor(i) :
                Qualifies(batch[i]) /\ trace[k].arg = batch[i].receipt
    /\ (pc = "pm_done" /\ batch # <<>> =>
          \A i \in DOMAIN batch :
             Qualifies(batch[i]) => Cardinality(AcksFor(i)) = 1)

\* A finished pass over an emergency message to acknowledge and an already
\* acknowledged one has made one acknowledge call.
C4_Witness ==
    /\ pc = "pm_done" /\ Len(batch) = 2
    /\ Qualifies(batch[1])
    /\ batch[2].priority >= 2 /\ batch[2].acked = 1 /\ batch[2].receipt # None
    /\ Cardinality(CallsOf("ack")) = 1

\* C5: a pass over a non-empty batch in which every call succeeded has shown
\* one notification per message, has made every notification and acknowledge
\* call before its one delete call, and ends with last_message_id equal to
\* the id_str of the batch's greatest id in memory and in the saved record.
C5_HappyPass ==
    /\ [](pc = "pm_done" /\ batch # <<>> /\ failed = {} =>
            /\ \A i \in DOMAIN batch :
                  Cardinality({k \in CallsOf("notify") : trace[k].i = i}) = 1
            /\ Cardinality(CallsOf("notify")) = Len(batch)
            /\ Cardinality(CallsOf("delete")) = 1
            /\ \A d \in CallsOf("delete") :
                  \A k \in CallsOf("notify") \cup CallsOf("ack") : k < d
            /\ config.last_message_id = Some(MaxIdStr(batch)))
    /\ [][pc # "pm_done" /\ pc' = "pm_done" /\ batch' # <<>> /\ failed' = {} =>
            disk'.last_message_id = Some(MaxIdStr(batch'))]_vars

\* A pass over two messages, one of them acknowledged, in which every call
\* succeeded, and the record saved with "10".
C5_Witness ==
    /\ pc = "pm_done" /\ Len(batch) = 2 /\ failed = {}
    /\ CallsOf("ack") # {}
    /\ disk.last_message_id = Some(<<1, 0>>)

\* C6: a pass entered without the secret or without the device id returns an
\* error at once: no call of any kind, the in-memory record, the saved record
\* and the service untouched.
C6_FailFast ==
    [][pc = "pm_entry" /\ pc' # pc
         /\ (config.secret = None \/ config.device_id = None) =>
            /\ pc' = "pm_done" /\ pmRes' = "err"
            /\ trace' = <<>>
            /\ config' = config /\ disk' = disk /\ server' = server]_vars

\* A pass with the device id but no secret has returned an error without a
\* download, though messages wait at the service.
C6_Witness ==
    /\ pc = "pm_done" /\ pmRes = "err" /\ trace = <<>>
    /\ config.secret = None /\ config.device_id # None
    /\ server # <<>>

\* The frames that carry the command byte 'E' or 'A'.
InvalidatingFrames ==
    {[kind |-> "Binary", data |-> <<b>>] : b \in {69, 65}}

C8_NoCredsFailFast ==
    /\ []((config.secret = None \/ config.device_id = None)
            /\ pc \notin {"start", "load_err", "panicked"} =>
          pc \in {"inv_save", "inv_send", "returned_err", "reconnect_delay",
                  "loop_top", "nocreds_sleep"})
    /\ [][pc = "loop_top" /\ pc' # pc
            /\ (config.secret = None \/ config.device_id = None) =>
               /\ pc' = "nocreds_sleep"
               /\ UNCHANGED <<wsSent, connects, server, trace, config, disk>>]_vars
    /\ [][pc = "nocreds_sleep" /\ pc' # pc =>
               /\ pc' = "loop_top"
               /\ lastAct' = [op |-> "sleep", ok |-> TRUE, ms |-> 5000]
               /\ UNCHANGED <<wsSent, connects, server, trace, config, disk>>]_vars

\* After an invalidation the guard at the top of the loop has failed and the
\* supervisor sleeps.
C8_Witness ==
    /\ pc = "nocreds_sleep" /\ connects
    /\ config.secret = None /\ config.device_id = None
    /\ lastAct = Act("loop_top", FALSE)

\* C9: a connect attempt directly follows the guard at the top of the main
\* loop, and the top of the loop is reached, once a connect has been attempted
\* before, only by a sleep of 5000 ms; the first attempt of the run follows
\* the startup pass.
C9_DelayBeforeReconnect ==
    /\ (pc = "connect" => lastAct = Act("loop_top", TRUE))
    /\ (pc = "loop_top" /\ connects =>
          lastAct = [op |-> "sleep", ok |-> TRUE, ms |-> 5000])
    /\ (pc = "loop_top" /\ ~connects => lastAct.op = "pm_return")

\* A connect attempt that is not the first of the run.
C9_Witness == pc = "connect" /\ connects

\* C10: once in the main loop, consume_message_feed has not returned.
C10_NeverReturns ==
    /\ pc # "returned_err"
    /\ (connects => pc \notin {"load_err", "panicked"})

\* A connect attempt has just failed, or the read loop has just been left.
JustBroke ==
    \/ lastAct \in {Act("connect", FALSE), Act("login", FALSE)}
    \/ lastAct.op = "read" /\ pc \notin {"reading", "pm_entry", "inv_save"}

\* C11: with the in-memory credentials present, every failed connect attempt
\* and every exit of the read loop is followed, as long as the process lives,
\* by a new connect attempt; this holds at every failure, however many came
\* before it.
C11_AlwaysRetries ==
    (JustBroke /\ ~MissingCreds(config)) ~> (pc = "connect" \/ ~Running)

\* A connect attempt that was not the first has failed with the credentials
\* present.
C11_Witness ==
    /\ pc = "reconnect_delay" /\ lastAct = Act("connect", FALSE)
    /\ ~MissingCreds(config) /\ wsSent = <<>> /\ server # <<>>

\* The branch the claim names for a byte value.
BranchOf(b) ==
    IF b = 35 THEN "KeepAlive"
    ELSE IF b = 33 THEN "NewData"
    ELSE IF b = 82 THEN "ReloadRequested"
    ELSE IF b = 69 THEN "PermanentError"
    ELSE IF b = 65 THEN "SessionSupersededElsewhere"
    ELSE "Unknown"

\* Where the read loop is after the first step of a branch.
BranchPc(br) ==
    CASE br = "NewData" -> "pm_entry"
      [] br = "ReloadRequested" -> "reconnect_delay"
      [] br \in {"PermanentError", "SessionSupersededElsewhere"} -> "inv_save"
      [] OTHER -> "reading"

\* C12: every byte value 0..255 selects a branch, the one the table gives
\* ('#', '!', 'R', 'E', 'A', anything else Unknown), and in every state of every
\* connection the read of a one-byte binary frame takes that branch.
C12_DispatchTotal ==
    /\ [](\A b \in 0..255 : Decode(b) = BranchOf(b))
    /\ [][\A b \in 0..255 :
            \/ /\ lastAct'.op = "read"
               /\ lastAct'.cmd = BranchOf(b)
               /\ pc' = BranchPc(BranchOf(b))
            \/ ~Read([kind |-> "Binary", data |-> <<b>>])]_vars
    /\ [](pc = "reading" =>
            \A b \in 0..255 : ENABLED Read([kind |-> "Binary", data |-> <<b>>]))

\* On a connection that is not the first, after a pass, a byte outside the
\* table has been dispatched as Unknown.
C12_Witness ==
    /\ pc = "reading" /\ lastAct.op = "read" /\ lastAct.cmd = "Unknown"
    /\ config.last_message_id # disk.last_message_id \/ server # <<>>

\* C13: on one connection the frames taken and the frames still pending, read
\* together, are the frames in their order of arrival: they change only by a
\* frame arriving at the end, by the read loop taking the oldest pending frame,
\* or by a new connection.  The read loop takes a frame only when it is back
\* at the top of its loop, every effect of the frame before (pass, save,
\* logout event) being over, and takes none after the frame that ended it.
C13_InArrivalOrder ==
    [][\/ UNCHANGED <<inbox, done>>
       \/ /\ done' = done
          /\ \E f \in QueuedFrames : inbox' = Append(inbox, f)
       \/ /\ inbox # <<>>
          /\ done' = Append(done, Head(inbox))
          /\ inbox' = Tail(inbox)
          /\ pc = "reading" /\ caller = "none" /\ trace = <<>>
          /\ lastAct'.op = "read" /\ lastAct'.cmd = Command(Head(inbox))
          /\ \A i \in DOMAIN done : Command(done[i]) # "PermanentError"
       \/ /\ pc = "connect"
          /\ done' = <<>> /\ inbox' = <<>>]_vars

\* A NewData frame and then an 'E' frame have been handled in that order, the
\* pass of the first over before the second was taken, and a frame that
\* arrived after the 'E' is left on the stream.
C13_Witness ==
    /\ Len(done) = 2
    /\ Command(done[1]) = "NewData" /\ Command(done[2]) = "PermanentError"
    /\ inbox # <<>>
    /\ pc = "reconnect_delay"
    /\ config.last_message_id # Some(IdStr(8))

\* A pass is in progress: from the call of process_messages to its return.
InPass == pc \in {"pm_entry", "pm_loop", "pm_ack", "pm_delete", "pm_done"}

\* C14: a pass starts only when no pass is in progress and the one before has
\* returned, so the calls of one pass hold one download; and while a pass
\* started by NewData is in progress no frame is taken from the stream, no
\* connect is attempted and nothing is sent on the connection.
C14_PassBlocksReadLoop ==
    /\ [](Cardinality(CallsOf("download")) <= 1)
    /\ [][pc' = "pm_entry" /\ pc # "pm_entry" =>
            ~InPass /\ caller = "none" /\ trace = <<>> /\ batch = <<>>]_vars
    /\ [][InPass /\ caller = "read" =>
            /\ done' = done
            /\ connects' = connects /\ wsSent' = wsSent
            /\ (lastAct' # lastAct =>
                    lastAct'.op \notin {"read", "connect", "login"})
            /\ (pc' # pc => pc' = "reading" \/ InPass')]_vars

\* A pass started by NewData is about to delete while another frame is
\* already waiting on the stream.
C14_Witness ==
    /\ pc = "pm_delete" /\ caller = "read"
    /\ inbox # <<>> /\ done # <<>>
    /\ Command(done[Len(done)]) = "NewData"

\* C15: the startup pass is called once, straight after the load of a
\* logged-in record; until it has returned no connect is attempted; and when
\* it returns, with Ok or with Err, the supervisor is at the top of the main
\* loop, from where the first connect attempt is made.
C15_StartupPassThenLoop ==
    /\ [][pc = "start" /\ pc' # pc /\ lastAct'.ok
            /\ config'.secret # None /\ config'.device_id # None =>
               pc' = "pm_entry" /\ caller' = "startup" /\ ~connects']_vars
    /\ [][caller' = "startup" /\ caller # "startup" => pc = "start"]_vars
    /\ [][pc' = "start" => pc = "start"]_vars
    /\ [][caller = "startup" /\ pc' # pc =>
            /\ pc' = "loop_top" \/ (InPass' /\ caller' = "startup")
            /\ (pc = "pm_done" => pmRes \in {"ok", "err"} /\ pc' = "loop_top")]_vars
    /\ [](caller = "startup" => ~connects /\ wsSent = <<>>)
    /\ [](pc = "connect" /\ ~connects => lastAct = Act("loop_top", TRUE))
    /\ [](pc = "loop_top" /\ ~connects => lastAct.op = "pm_return")

\* The startup pass has failed and the supervisor is at its first connect
\* attempt.
C15_Witness ==
    /\ pc = "loop_top" /\ ~connects
    /\ lastAct = Act("pm_return", FALSE)
    /\ config.secret # None /\ config.device_id # None

\* C16: when the loaded record lacks the secret or the device id the
\* supervisor panics at once: the step from the start goes to the panic with
\* no pass called, no REST call made, no connection opened and nothing
\* written, and the supervisor takes no step after it.
C16_PanicWhenNotLoggedIn ==
    /\ [][pc = "start" /\ pc' # pc /\ lastAct'.ok
            /\ (disk.secret = None \/ disk.device_id = None) =>
               /\ pc' = "panicked"
               /\ UNCHANGED <<server, trace, batch, caller, connects, wsSent,
                              disk, chan>>]_vars
    /\ [][pc = "panicked" => pc' = "panicked" /\ lastAct' = lastAct]_vars
    /\ [](pc = "panicked" =>
            /\ ~connects /\ wsSent = <<>> /\ caller = "none" /\ trace = <<>>
            /\ config.last_message_id = Some(IdStr(8)))

\* The file held the device id but no secret, and the supervisor has
\* panicked.
C16_Witness ==
    /\ pc = "panicked" /\ lastAct = Act("load", TRUE)
    /\ config.secret = None /\ config.device_id # None

\* The supervisor is past its startup checks and no pass is in progress.
Settled == ~InPass /\ pc \notin {"start", "load_err", "panicked"}

\* C17: whenever no pass is in progress, the persisted last_message_id is the
\* id_str of the last successful delete of the run, which is what the
\* supervisor's in-memory record holds (the loaded value if there was none).
\* Stated over one step outside any pass: the persisted value, once it is
\* that id_str, is still that id_str after the step, whoever took it.
C17_PersistedHighWaterMark ==
    [][Settled /\ Settled' /\ disk.last_message_id = config.last_message_id =>
          disk'.last_message_id = config'.last_message_id]_vars

\* C18: once the supervisor has connected, has cleared its credentials on 'E'
\* or 'A' and the persisted secret and device_id are cleared, no step of any
\* task puts a secret or a device id back into the persisted record.
C18_ClearedStaysCleared ==
    [][connects /\ config.secret = None /\ config.device_id = None
         /\ disk.secret = None /\ disk.device_id = None =>
            disk'.secret = None /\ disk'.device_id = None]_vars

\* The answer is a success as the claim defines it: HTTP success status, a
\* body that decodes, and status 1 in it.
Success(r) == r.http /\ r.decodes /\ r.status = 1

\* C19: whatever the answer, download_messages, acknowledge_emergency and
\* delete_messages return Ok exactly when the HTTP status is a success, the
\* body decodes and its status is 1; on any other answer to the download the
\* pass ends with an error and an empty batch, and on any other answer to the
\* delete the records stay as they were.
C19_RestSuccess ==
    [][\A r \in Responses :
        /\ \A o \in Orders :
             pc = "pm_entry" /\ ~MissingCreds(config) /\ Download(r, o) =>
                /\ lastAct'.ok <=> Success(r)
                /\ ~Success(r) =>
                      batch' = <<>> /\ pc' = "pm_done" /\ pmRes' = "err"
        /\ pc = "pm_ack" /\ Acknowledge(r) => (lastAct'.ok <=> Success(r))
        /\ \A saveOk \in BOOLEAN :
             pc = "pm_delete" /\ Delete(r, saveOk) =>
                /\ lastAct'.ok <=> Success(r)
                /\ ~Success(r) => config' = config /\ disk' = disk]_vars

\* The service holds messages and the download has failed: none of them was
\* handed to the pass.
C19_Witness ==
    /\ pc = "pm_done" /\ lastAct = Act("download", FALSE)
    /\ server # <<>> /\ batch = <<>> /\ pmRes = "err"

\* C20: a pass is started by the startup code, which runs once, and by the
\* read of a one-byte binary '!' frame, and by nothing else; every such read
\* starts one; and a download is made only as the first call of a pass.  So
\* the passes started are one more than the NewData commands processed, and
\* a connect, a reconnect, a keep-alive or any other frame starts none.
C20_PassesStarted ==
    /\ [][pc' = "pm_entry" /\ pc # "pm_entry" =>
            \/ pc = "start" /\ caller' = "startup"
            \/ /\ pc = "reading" /\ caller' = "read"
               /\ Read([kind |-> "Binary", data |-> <<33>>])]_vars
    /\ [][\A f \in Frames :
            \/ (pc' = "pm_entry" <=> f = [kind |-> "Binary", data |-> <<33>>])
            \/ ~Read(f)]_vars
    /\ [][pc' = "start" => pc = "start"]_vars
    /\ [][lastAct' # lastAct /\ lastAct'.op = "download" =>
            pc = "pm_entry" /\ trace = <<>>]_vars
    /\ [](~InPass => trace = <<>>)

\* On an open connection a keep-alive has been read while the service holds
\* a message: no pass has started, nothing has been downloaded.
C20_Witness ==
    /\ pc = "reading" /\ lastAct.op = "read" /\ lastAct.cmd = "KeepAlive"
    /\ server # <<>> /\ trace = <<>>
    /\ config.last_message_id = Some(IdStr(8))

\* The position of the first message of b that has the greatest numeric id.
FirstMax(b) ==
    CHOOSE i \in 1..Len(b) :
        /\ \A j \in 1..Len(b) : b[j].id <= b[i].id
        /\ \A j \in 1..(i - 1) : b[j].id < b[i].id

\* C21: the message chosen as highest is the first of the batch that has the
\* greatest numeric id: every delete call of a pass is made with the id_str of
\* that message, and a last_message_id set by the pass is that id_str.
C21_FirstMaxWins ==
    /\ \A k \in CallsOf("delete") :
          trace[k].arg = Some(batch[FirstMax(batch)].id_str)
    /\ (pc = "pm_done" /\ batch # <<>> /\ "delete" \notin failed =>
          config.last_message_id = Some(batch[FirstMax(batch)].id_str))

\* C22: the read of a text or binary frame whose payload is one byte takes
\* the branch of that byte's command; the read of a text or binary frame with
\* more than one byte changes nothing but the record of the read and leaves
\* the read loop at its top.
C22_OneBytePayloadDispatched ==
    [][\A f \in {g \in Frames : g.kind \in {"Text", "Binary"}} :
          \/ ~Read(f)
          \/ /\ Len(f.data) = 1 => pc' = BranchPc(BranchOf(f.data[1]))
             /\ Len(f.data) > 1 =>
                   /\ pc' = "reading"
                   /\ UNCHANGED <<config, disk, chan, server, trace, caller,
                                  connects, wsSent>>]_vars

\* C23: no acknowledge call of a pass carries an empty receipt, and a message
\* whose receipt is the empty string gets no acknowledge call.
C23_NoEmptyReceiptAck ==
    \A k \in CallsOf("ack") :
        /\ trace[k].arg # Some("")
        /\ batch[trace[k].i].receipt # Some("")

\* C24: a failed acknowledge call does not end the pass and is not repeated:
\* the step that fails moves on to the next message or to the delete call,
\* and a finished pass in which an acknowledge call failed has notified every
\* batch message once, has made one acknowledge call for each qualifying
\* message, and has called delete_messages with the id_str of the greatest
\* id.
C24_AckFailureGoesOn ==
    /\ (lastAct = Act("ack", FALSE) =>
          /\ pc \in {"pm_loop", "pm_delete"}
          /\ idx = trace[Len(trace)].i + 1
          /\ pc = "pm_delete" <=> idx > Len(batch))
    /\ (pc = "pm_done" /\ "ack" \in failed =>
          /\ \A i \in DOMAIN batch :
                /\ Cardinality({k \in CallsOf("notify") : trace[k].i = i}) = 1
                /\ Cardinality(AcksFor(i)) = IF Qualifies(batch[i]) THEN 1 ELSE 0
          /\ \E k \in CallsOf("delete") :
                \E i \in DOMAIN batch :
                    IsMaxOf(i, batch) /\ trace[k].arg = Some(batch[i].id_str))

\* A finished pass over two qualifying messages in which an acknowledge call
\* failed while the notifications and the delete call succeeded.
C24_Witness ==
    /\ pc = "pm_done" /\ failed = {"ack"}
    /\ Len(batch) = 2 /\ \A i \in DOMAIN batch : Qualifies(batch[i])
    /\ Cardinality(CallsOf("ack")) = 2
    /\ CallsOf("delete") # {}

\* C25: a pass whose download succeeds with an empty batch ends at once with
\* success, having called nothing but download_messages (no notification, no
\* acknowledge call, no delete call, no save), and leaves the configuration
\* in memory and on disk, last_message_id included, and the service as they
\* were.
C25_EmptyBatchNoOp ==
    [][pc = "pm_entry" /\ pc' # "pm_entry" /\ server = <<>>
         /\ lastAct' = Act("download", TRUE) =>
            /\ pc' = "pm_done" /\ pmRes' = "ok"
            /\ batch' = <<>>
            /\ trace' = <<Call("download", 0, None)>>
            /\ UNCHANGED <<config, disk, server>>]_vars

\* A pass that ended on an empty batch while a last_message_id is stored.
C25_Witness ==
    /\ pc = "pm_done" /\ pmRes = "ok" /\ batch = <<>>
    /\ lastAct = Act("download", TRUE)
    /\ config.last_message_id # None

\* C26: when the pass started by a '!' command ends with an error, the return
\* puts the supervisor back at the read of the next frame of the same
\* connection: no new connection, nothing sent on the socket, no event on
\* the channel, and the configuration in memory and on disk as it was.
C26_FailedPassKeepsReading ==
    [][pc = "pm_done" /\ caller = "read" /\ pmRes = "err" /\ pc' # pc =>
            /\ pc' = "reading"
            /\ UNCHANGED <<connects, wsSent, chan, config, disk>>
            /\ UNCHANGED wsVars]_vars

\* The supervisor is back at the read after a failed pass.
C26_Witness ==
    /\ pc = "reading" /\ lastAct = Act("pm_return", FALSE)
    /\ connects

\* The binary frame of the one byte 'R'.
ReloadFrame == [kind |-> "Binary", data |-> <<82>>]

\* C27: the read of an 'R' command ends the read loop; the supervisor's next
\* step is the sleep of RECONNECT_DELAY_MS, and the step after the sleep,
\* the credentials being present, is a new connect attempt.  Through these
\* steps secret, device_id and last_message_id stay as they were in memory
\* and on disk, no event is put on the channel and no pass is started.
C27_ReloadReconnects ==
    [][/\ \/ /\ pc' = "reconnect_delay"
             /\ UNCHANGED <<config, disk, chan, caller, trace>>
          \/ ~Read(ReloadFrame)
       /\ lastAct = Got(ReloadFrame) =>
             /\ config.secret # None /\ config.device_id # None
             /\ pc = "reconnect_delay"
             /\ lastAct' # lastAct =>
                   /\ pc' = "loop_top"
                   /\ lastAct' = Sleep(RECONNECT_DELAY_MS)
                   /\ UNCHANGED <<config, disk, chan, caller, trace>>
       /\ /\ pc = "loop_top" /\ lastAct = Sleep(RECONNECT_DELAY_MS)
          /\ config.secret # None /\ config.device_id # None
          /\ pc' # pc
          => /\ pc' = "connect"
             /\ UNCHANGED <<config, disk, chan, caller, trace>>]_vars

\* An 'R' was read and the supervisor is at the reconnect delay, with the
\* credentials and the last_message_id it had and nothing on the channel.
C27_Witness ==
    /\ pc = "reconnect_delay" /\ lastAct = Got(ReloadFrame)
    /\ config.secret # None /\ config.device_id # None
    /\ config.last_message_id # None
    /\ chan = <<>>

\* C28: on 'E' or 'A' the steps come in this order: the read clears the
\* in-memory secret and device_id, the next step saves the cleared record,
\* the next puts the logout event on the channel and leaves the read loop;
\* and no logout event is on the channel while the persisted record holds a
\* secret or a device_id.
C28_LogoutAfterPersist ==
    /\ [][/\ \A f \in InvalidatingFrames :
                \/ /\ config'.secret = None /\ config'.device_id = None
                   /\ pc' = "inv_save"
                   /\ UNCHANGED <<disk, chan>>
                \/ ~Read(f)
           /\ (pc = "inv_save" /\ pc' # pc =>
                  pc' = "inv_send" /\ UNCHANGED <<config, chan>>)
           /\ (pc = "inv_send" /\ chan' # chan /\ pc' # pc =>
                  chan' = Append(chan, "Logout") /\ pc' = "reconnect_delay")]_vars
    /\ []((\E i \in DOMAIN chan : chan[i] = "Logout") =>
            disk.secret = None /\ disk.device_id = None)

\* The step leaves the in-memory secret and device_id as they were.
SameCredentials ==
    config'.secret = config.secret /\ config'.device_id = config.device_id

\* The step puts a logout event on the channel.
EmitsLogout ==
    Len(chan') > Len(chan) /\ chan'[Len(chan')] = "Logout"

\* C29: after the load at startup, the in-memory secret or device_id changes
\* only in the read of an 'E' or 'A' command, and a logout event is put on
\* the channel only by the send of that handler; the read of any other frame
\* (keep-alive, new data, reload, unknown byte, text, multi-byte, ping, pong,
\* close, transport error, end of stream), every step of a pass and every
\* connect or login step leave both as they were and emit no logout event.
C29_OnlyInvalidationTouchesCreds ==
    [][/\ (~SameCredentials /\ pc # "start" =>
              \E f \in InvalidatingFrames : Read(f))
       /\ (EmitsLogout => pc = "inv_send")
       /\ \A f \in Frames \ InvalidatingFrames :
              \/ SameCredentials /\ ~EmitsLogout
              \/ ~Read(f)
       /\ (InPass \/ pc \in {"loop_top", "connect", "login", "reconnect_delay",
                              "nocreds_sleep"} =>
              SameCredentials /\ ~EmitsLogout)]_vars

\* An unknown command byte was read on a connection: the credentials are
\* still in memory and no logout event is on the channel.
C29_Witness ==
    /\ pc = "reading" /\ lastAct = Got([kind |-> "Binary", data |-> <<0>>])
    /\ config.secret # None /\ config.device_id # None
    /\ \A i \in DOMAIN chan : chan[i] # "Logout"

\* C30: on every connection the one frame sent is the login line of the
\* in-memory device_id and secret, sent by the step that enters the read
\* loop, so that nothing is read before it; no later step of the connection
\* sends anything; and a failed send of the login line, like a failed
\* connect, goes to the reconnect delay without entering the read loop and
\* without a frame sent.
C30_LoginFirstAndOnly ==
    [][/\ (pc' = "reading" /\ pc \in {"connect", "login"} =>
              /\ pc = "login" /\ lastAct' = Act("login", TRUE)
              /\ wsSent = <<>>
              /\ wsSent' = <<<<"login:", Unwrap(config.device_id), ":",
                               Unwrap(config.secret), "\n">>>>)
       /\ (lastAct'.op = "read" /\ lastAct' # lastAct => Len(wsSent) = 1)
       /\ (pc \notin {"connect", "login"} => UNCHANGED wsSent)
       /\ (pc = "connect" /\ pc' # pc =>
              /\ wsSent' = <<>>
              /\ pc' = IF lastAct'.ok THEN "login" ELSE "reconnect_delay")
       /\ (pc = "login" /\ lastAct' = Act("login", FALSE)
              /\ config.secret # None /\ config.device_id # None =>
              pc' = "reconnect_delay" /\ wsSent' = <<>>)
       /\ (pc = "reconnect_delay" /\ pc' # pc => pc' = "loop_top")]_vars

\* The read loop of a connection has been entered: the login line is the one
\* frame sent on it.
C30_Witness ==
    /\ pc = "reading" /\ lastAct = Act("login", TRUE)
    /\ wsSent = <<<<"login:", "d", ":", "s", "\n">>>>

\* The frames the read loop only logs: a binary frame of the one byte '#' or
\* of one byte that is no command, a ping, a pong.
NoOpFrames ==
    {f \in Frames :
        \/ f.kind \in {"Ping", "Pong"}
        \/ /\ f.kind = "Binary" /\ Len(f.data) = 1
           /\ f.data[1] \notin {33, 82, 69, 65}}

\* The frames that end the read loop without a command: a close frame, a
\* transport error, the end of the stream.
EndingFrames == {f \in Frames : f.kind \in {"Close", "Err", "End"}}

\* C31: the read of a keep-alive, of an unknown command byte, of a ping or of
\* a pong leaves the supervisor at the read of the same connection, and the
\* read of a close frame, of a transport error or of the end of the stream
\* takes it to the reconnect delay; either way the configuration in memory
\* (credentials and last_message_id) and on disk, the service, the calls made,
\* the channel and what was sent on the socket are as they were.
C31_NoOpFrames ==
    [][\A f \in NoOpFrames \cup EndingFrames :
          \/ /\ pc' = IF f \in NoOpFrames THEN "reading" ELSE "reconnect_delay"
             /\ UNCHANGED <<config, disk, chan, server, trace, caller,
                            connects, wsSent>>
          \/ ~Read(f)]_vars

\* A keep-alive was read: the supervisor is at the read again with its
\* record as on disk and nothing on the channel.
C31_Witness ==
    /\ pc = "reading"
    /\ lastAct = Got([kind |-> "Binary", data |-> <<35>>])
    /\ config = disk /\ config.secret # None
    /\ chan = <<>> /\ trace = <<>>

\* C32: within one pass there is at most one download call, at most one
\* delete call and at most one acknowledge call per batch message, whatever
\* the calls answered; a call that failed is followed in the same pass by no
\* call of the same kind for the same message.
C32_NoRetryInPass ==
    /\ Cardinality(CallsOf("download")) <= 1
    /\ Cardinality(CallsOf("delete")) <= 1
    /\ \A i \in DOMAIN batch : Cardinality(AcksFor(i)) <= 1
    /\ \A k \in CallsOf("ack") : trace[k].i \in DOMAIN batch
    /\ ("download" \in failed => trace = <<Call("download", 0, None)>>)
    /\ ("delete" \in failed =>
          pc = "pm_done" /\ trace[Len(trace)].op = "delete")

\* A finished pass over two messages in which an acknowledge call and the
\* delete call failed, each made once.
C32_Witness ==
    /\ pc = "pm_done" /\ {"ack", "delete"} \subseteq failed
    /\ Len(batch) = 2
    /\ Cardinality(CallsOf("delete")) = 1
    /\ Cardinality(CallsOf("download")) = 1
    /\ \E i \in DOMAIN batch : Cardinality(AcksFor(i)) = 1

\* Every message of the sequence b is, by its id, among the messages of s.
Held(s, b) ==
    \A i \in DOMAIN b : \E j \in DOMAIN s : s[j].id = b[i].id

\* Every message of the batch has had its notification.
AllNotified ==
    \A i \in DOMAIN batch :
        \E k \in DOMAIN trace : trace[k] = Call("notify", i, None)

\* C33 as stated: after a delete call that failed, whatever made it fail, the
\* service still holds every message of the batch.
C33_FailedDeleteKeepsBatch ==
    [][pc = "pm_delete" =>
          \A r \in Responses, saveOk \in BOOLEAN :
              \/ delete_ok(r)
              \/ Held(server', batch)
              \/ ~Delete(r, saveOk)]_vars

\* C33, amended: a delete call that failed leaves the configuration in memory
\* and on disk as it was, and, when the service did not carry the request
\* out, leaves at the service every message of the batch; no step other than
\* a delete call takes a message from the service; a download that succeeds
\* lists every message the service holds; and a pass that reaches its delete
\* call has notified every message of its batch.  So the messages of a batch
\* whose delete failed without being carried out are downloaded and notified
\* again by the next pass whose download succeeds.
C33_Redelivery ==
    [][/\ (pc = "pm_delete" =>
              /\ AllNotified
              /\ Held(server, batch)
              /\ \A r \in Responses, saveOk \in BOOLEAN :
                    \/ delete_ok(r)
                    \/ /\ UNCHANGED <<config, disk>>
                       /\ pc' = "pm_done"
                       /\ (~ServiceDid(r) => Held(server', batch))
                    \/ ~Delete(r, saveOk))
       /\ (pc # "pm_delete" => Held(server', server))
       /\ (pc = "pm_entry" /\ pc' # pc /\ lastAct' = Act("download", TRUE) =>
              Held(batch', server) /\ Held(server, batch'))]_vars

\* A pass over two messages has ended with a failed delete that the service
\* did not carry out: both messages are still at the service.
C33_Witness ==
    /\ pc = "pm_done" /\ "delete" \in failed
    /\ Len(batch) = 2 /\ Held(server, batch)
    /\ AllNotified

\* The numeric value of a stored last_message_id.
NumOf(o) == ParseId(Unwrap(o))

C35_SaveTouchesOnlyLastId ==
    [][pc = "pm_delete" /\ lastAct' = Act("delete", TRUE) /\ pc' # pc =>
          /\ disk'.start_on_boot = disk.start_on_boot
          /\ disk'.user_key = disk.user_key]_vars

\* The supervisor has connected and then cleared its credentials.
Invalidated == connects /\ config.secret = None /\ config.device_id = None

\* C36: the persisted record is loaded by the first step of the supervisor
\* and by no other; once the supervisor has cleared its credentials on 'E' or
\* 'A' they stay cleared in memory whatever the persisted record holds, and
\* no step connects, sends on a socket, starts a pass or makes a REST call.
C36_NoReloadAfterInvalidation ==
    [][/\ (lastAct'.op = "load" /\ lastAct' # lastAct => pc = "start")
       /\ (Invalidated =>
              /\ config'.secret = None /\ config'.device_id = None
              /\ pc' \in {"inv_save", "inv_send", "reconnect_delay", "loop_top",
                          "nocreds_sleep", "returned_err"}
              /\ UNCHANGED <<trace, wsSent, batch, caller>>)]_vars

\* After the invalidation the persisted record holds credentials and
\* the supervisor has been through the guard's sleep without them.
C36_Witness ==
    /\ Invalidated
    /\ disk.secret # None /\ disk.device_id # None
    /\ pc = "loop_top" /\ lastAct = Sleep(RECONNECT_DELAY_MS)
    /\ chan # <<>> /\ chan[1] = "Logout"

\* C37: a failed notification does not end the pass: the step that fails goes
\* on to the acknowledge call when the message qualifies for one and to the
\* next message or the delete call when it does not, and a finished pass in
\* which a notification failed has notified every batch message once, has
\* made one acknowledge call for each qualifying message and one delete call
\* with the id_str of the greatest id; when that delete succeeded the service
\* holds no message of the batch.
C37_NotifyFailureGoesOn ==
    /\ (lastAct = Act("notify", FALSE) =>
          /\ pc \in {"pm_ack", "pm_loop", "pm_delete"}
          /\ pc = "pm_ack" => Qualifies(batch[idx])
          /\ pc # "pm_ack" =>
                /\ ~Qualifies(batch[idx - 1])
                /\ pc = "pm_delete" <=> idx > Len(batch))
    /\ (pc = "pm_done" /\ "notify" \in failed =>
          /\ \A i \in DOMAIN batch :
                /\ Cardinality({k \in CallsOf("notify") : trace[k].i = i}) = 1
                /\ Cardinality(AcksFor(i)) = IF Qualifies(batch[i]) THEN 1 ELSE 0
          /\ Cardinality(CallsOf("delete")) = 1
          /\ \A k \in CallsOf("delete") :
                \E i \in DOMAIN batch :
                    IsMaxOf(i, batch) /\ trace[k].arg = Some(batch[i].id_str)
          /\ ("delete" \notin failed =>
                \A i \in DOMAIN batch, j \in DOMAIN server :
                    server[j].id # batch[i].id))

\* A finished pass over two messages, one of them qualifying, in which only
\* a notification failed: the delete succeeded.
C37_Witness ==
    /\ pc = "pm_done" /\ failed = {"notify"}
    /\ Len(batch) = 2 /\ \E i \in DOMAIN batch : Qualifies(batch[i])
    /\ CallsOf("delete") # {}
    /\ \A j \in DOMAIN server : server[j].id > 10

\* C38: a pass whose download fails (the request does not get through, the
\* HTTP status is no success, the body does not decode, or its status is not
\* 1) ends at once with an error, having made no call but the download: no
\* notification, no acknowledge call, no delete call, no save; the
\* configuration in memory and on disk and the service are as they were.
C38_FailedDownloadEndsPass ==
    [][pc = "pm_entry" =>
          \A r \in Responses, o \in Orders :
              \/ Success(r)
              \/ /\ pc' = "pm_done" /\ pmRes' = "err"
                 /\ batch' = <<>>
                 /\ trace' = <<Call("download", 0, None)>>
                 /\ UNCHANGED <<config, disk, server>>
              \/ ~Download(r, o)]_vars

\* A pass has ended on a failed download while messages wait at the service.
C38_Witness ==
    /\ pc = "pm_done" /\ pmRes = "err"
    /\ lastAct = Act("download", FALSE)
    /\ trace = <<Call("download", 0, None)>>
    /\ server # <<>>

\* C39: when the save of the cleared record fails during the handling of 'E'
\* or 'A', the in-memory secret and device_id are cleared all the same and
\* the persisted record still holds the old secret and device_id; the next
\* step of the supervisor puts exactly one logout event on the channel and
\* leaves the read loop for the reconnect delay.
C39_FailedSaveStillLogsOut ==
    [][/\ (pc = "inv_save" /\ lastAct' = Act("save_cleared", FALSE) =>
              /\ config'.secret = None /\ config'.device_id = None
              /\ disk' = disk
              /\ disk'.secret # None /\ disk'.device_id # None
              /\ pc' = "inv_send" /\ chan' = chan)
       /\ (pc = "inv_send" /\ lastAct = Act("save_cleared", FALSE)
              /\ pc' # pc =>
              /\ chan' = Append(chan, "Logout")
              /\ pc' = "reconnect_delay"
              /\ config'.secret = None /\ config'.device_id = None)]_vars

====
